---------------------------- MODULE Spec2Model ----------------------------
(***************************************************************************)
(* A model of codetokencalculator: the directory scan of calculator.py     *)
(* (process_directory, process_file, is_likely_text_file, is_binary_file), *)
(* the token counter of tokenizer.py and the exit path of main.py.         *)
(*                                                                         *)
(* Strings are sequences of one-character strings, so that suffixes,       *)
(* lower-casing, the "/" join of a relative path, Python's code-point      *)
(* string order and the regular-expression search are computed as the      *)
(* code computes them.                                                     *)
(***************************************************************************)
EXTENDS Integers, Sequences, FiniteSets, TLC

(***************************************************************************)
(* Bounds of the model.                                                    *)
(***************************************************************************)
\* The number of filesystem entries (files and directories) under the root.
MaxEntries == 3
\* The number of runs of equal bytes a file's content is made of.
MaxRuns == 2

(***************************************************************************)
(* Characters and strings.                                                 *)
(***************************************************************************)
\* The characters the model uses, in ascending code-point order.
Alphabet ==
    << " ", "$", "*", "-", ".", "/", "A", "B", "C", "D", "E", "G", "I", "J", "L", "M", "N", "O", "P", "R", "S", "Y", "[", "\\", "]", "_", "a", "b", "c", "d", "e", "f", "g", "h", "i", "j", "k", "l", "m", "n", "o", "p", "q", "r", "s", "t", "u", "v", "w", "x", "y", "z" >>

\* ord(c), up to an order-preserving renumbering.
Ord(c) == CHOOSE i \in DOMAIN Alphabet : Alphabet[i] = c

\* str.lower() on one character.
LowerChar(c) ==
    CASE c = "A" -> "a"
      [] c = "B" -> "b"
      [] c = "C" -> "c"
      [] c = "D" -> "d"
      [] c = "E" -> "e"
      [] c = "G" -> "g"
      [] c = "I" -> "i"
      [] c = "J" -> "j"
      [] c = "L" -> "l"
      [] c = "M" -> "m"
      [] c = "N" -> "n"
      [] c = "O" -> "o"
      [] c = "P" -> "p"
      [] c = "R" -> "r"
      [] c = "S" -> "s"
      [] c = "Y" -> "y"
      [] OTHER -> c

\* str.lower()
Lower(s) == [i \in DOMAIN s |-> LowerChar(s[i])]

\* Python's str comparison s < t: lexicographic by code point.
RECURSIVE StrLess(_, _)
StrLess(s, t) ==
    IF t = << >> THEN FALSE
    ELSE IF s = << >> THEN TRUE
    ELSE IF Head(s) = Head(t) THEN StrLess(Tail(s), Tail(t))
    ELSE Ord(Head(s)) < Ord(Head(t))

\* str.strip(): leading and trailing whitespace removed.
RECURSIVE LStrip(_)
LStrip(s) == IF s /= << >> /\ Head(s) = " " THEN LStrip(Tail(s)) ELSE s

RECURSIVE RStrip(_)
RStrip(s) ==
    IF s /= << >> /\ s[Len(s)] = " " THEN RStrip(SubSeq(s, 1, Len(s) - 1)) ELSE s

Strip(s) == RStrip(LStrip(s))

\* str.startswith('.')
StartsWithDot(s) == s /= << >> /\ Head(s) = "."

(***************************************************************************)
(* The module constants of calculator.py.                                  *)
(***************************************************************************)
DEFAULT_EXCLUDE_DIRS ==
    { <<".", "g", "i", "t">>, <<"_", "_", "p", "y", "c", "a", "c", "h", "e", "_", "_">>,
      <<"n", "o", "d", "e", "_", "m", "o", "d", "u", "l", "e", "s">>, <<".", "v", "s", "c", "o", "d", "e">>,
      <<".", "i", "d", "e", "a">>, <<"b", "u", "i", "l", "d">>,
      <<"d", "i", "s", "t">>, <<"e", "n", "v">>,
      <<"v", "e", "n", "v">>, <<".", "v", "e", "n", "v">>,
      <<"t", "a", "r", "g", "e", "t">>, <<"*", ".", "e", "g", "g", "-", "i", "n", "f", "o">> }

DEFAULT_INCLUDE_EXTENSIONS ==
    { <<".", "p", "y">>, <<".", "j", "s">>, <<".", "j", "s", "x">>,
      <<".", "t", "s">>, <<".", "t", "s", "x">>, <<".", "j", "a", "v", "a">>,
      <<".", "c">>, <<".", "c", "p", "p">>, <<".", "h">>,
      <<".", "h", "p", "p">>, <<".", "c", "s">>, <<".", "g", "o">>,
      <<".", "r", "s">>, <<".", "r", "b">>, <<".", "p", "h", "p">>,
      <<".", "s", "w", "i", "f", "t">>, <<".", "k", "t">>, <<".", "k", "t", "s">>,
      <<".", "s", "c", "a", "l", "a">>, <<".", "p", "l">>, <<".", "p", "m">>,
      <<".", "s", "h">>, <<".", "b", "a", "s", "h">>, <<".", "z", "s", "h">>,
      <<".", "m", "d">>, <<".", "t", "x", "t">>, <<".", "j", "s", "o", "n">>,
      <<".", "y", "a", "m", "l">>, <<".", "y", "m", "l">>, <<".", "x", "m", "l">>,
      <<".", "h", "t", "m", "l">>, <<".", "c", "s", "s">>, <<".", "s", "c", "s", "s">>,
      <<".", "t", "o", "m", "l">>, <<".", "i", "n", "i">>, <<".", "c", "f", "g">>,
      <<".", "c", "o", "n", "f">>, <<".", "s", "q", "l">>, <<".", "d", "o", "c", "k", "e", "r", "f", "i", "l", "e">>,
      <<"D", "o", "c", "k", "e", "r", "f", "i", "l", "e">>, <<".", "g", "i", "t", "i", "g", "n", "o", "r", "e">>, <<".", "g", "i", "t", "a", "t", "t", "r", "i", "b", "u", "t", "e", "s">>,
      <<".", "i", "p", "y", "n", "b">> }

TEXT_FILENAMES_WITHOUT_EXTENSION ==
    { <<"D", "o", "c", "k", "e", "r", "f", "i", "l", "e">>, <<"M", "a", "k", "e", "f", "i", "l", "e">>,
      <<"J", "e", "n", "k", "i", "n", "s", "f", "i", "l", "e">>, <<"L", "I", "C", "E", "N", "S", "E">>,
      <<"R", "E", "A", "D", "M", "E">> }

\* The default sample_size of is_binary_file.
SampleSize == 4096

(***************************************************************************)
(* pathlib: a path is the sequence of its components below the root, each  *)
(* a string.                                                               *)
(***************************************************************************)
\* The last index of "." in name, 0 when there is none (str.rfind, 1-based).
LastDot(name) ==
    LET dots == {i \in DOMAIN name : name[i] = "."}
    IN IF dots = {} THEN 0 ELSE CHOOSE i \in dots : \A j \in dots : j <= i

\* PurePath.suffix: from the last dot, unless the name starts or ends with it.
Suffix(name) ==
    LET i == LastDot(name)
    IN IF 1 < i /\ i < Len(name) THEN SubSeq(name, i, Len(name)) ELSE << >>

\* PurePath.name of a path below the root.
PathName(path) == path[Len(path)]

\* PurePath.parent
Parent(path) == SubSeq(path, 1, Len(path) - 1)

\* str(item_path.relative_to(directory_path)): the components joined by "/".
RECURSIVE RelPathStr(_)
RelPathStr(path) ==
    IF Len(path) = 1 THEN path[1]
    ELSE RelPathStr(Parent(path)) \o <<"/">> \o PathName(path)

(***************************************************************************)
(* re: the fragment of the pattern syntax the model's patterns use.        *)
(* A literal character, "\" and a character (that character), "." (any     *)
(* character), "$" (the end of the string); a leading "*" has nothing to   *)
(* repeat and a "[" with no "]" is an unterminated set, both re.error.     *)
(***************************************************************************)
\* Whether re.compile(pattern) returns (TRUE) or raises re.error (FALSE).
ReCompiles(pattern) ==
    /\ ~(pattern /= << >> /\ Head(pattern) = "*")
    /\ \A i \in DOMAIN pattern :
          pattern[i] = "[" => \E j \in DOMAIN pattern : j > i /\ pattern[j] = "]"

\* Whether the compiled pattern matches s at position pos (1-based).
RECURSIVE ReMatchAt(_, _, _)
ReMatchAt(pattern, s, pos) ==
    IF pattern = << >> THEN TRUE
    ELSE IF Head(pattern) = "\\" /\ Len(pattern) >= 2
    THEN /\ pos <= Len(s)
         /\ s[pos] = pattern[2]
         /\ ReMatchAt(SubSeq(pattern, 3, Len(pattern)), s, pos + 1)
    ELSE IF Head(pattern) = "$"
    THEN pos = Len(s) + 1 /\ ReMatchAt(Tail(pattern), s, pos)
    ELSE IF Head(pattern) = "."
    THEN pos <= Len(s) /\ ReMatchAt(Tail(pattern), s, pos + 1)
    ELSE /\ pos <= Len(s)
         /\ s[pos] = Head(pattern)
         /\ ReMatchAt(Tail(pattern), s, pos + 1)

\* compiled_regex.search(s): a match at some position.
ReSearch(pattern, s) == \E pos \in 1..(Len(s) + 1) : ReMatchAt(pattern, s, pos)

(***************************************************************************)
(* File contents: a sequence of runs [b, n], n copies of the byte b.       *)
(***************************************************************************)
\* The total number of bytes.
RECURSIVE ByteLen(_)
ByteLen(content) ==
    IF content = << >> THEN 0 ELSE Head(content).n + ByteLen(Tail(content))

\* f.read(size): the first size bytes, fewer if the file is shorter.
RECURSIVE ReadBytes(_, _)
ReadBytes(content, size) ==
    IF content = << >> \/ size <= 0 THEN << >>
    ELSE IF Head(content).n <= size
    THEN <<Head(content)>> \o ReadBytes(Tail(content), size - Head(content).n)
    ELSE <<[b |-> Head(content).b, n |-> size]>>

\* b'\0' in sample
HasNullByte(sample) == \E i \in DOMAIN sample : sample[i].b = 0 /\ sample[i].n > 0

\* bytes.decode("utf-8") raises UnicodeDecodeError: a byte that starts no
\* valid sequence (the model's only byte above 127 is a lone 0xFF).
Utf8DecodeFails(content) ==
    \E i \in DOMAIN content : content[i].b > 127 /\ content[i].n > 0

\* bytes.decode("latin-1"): every byte is the code point of its own value.
\* A text is a sequence of runs [c, n], n copies of the code point c.
Latin1Decode(content) ==
    [i \in DOMAIN content |-> [c |-> content[i].b, n |-> content[i].n]]

\* bytes.decode("utf-8") where it does not fail: every byte is below 128 and
\* is its own code point.
Utf8Decode(content) ==
    [i \in DOMAIN content |-> [c |-> content[i].b, n |-> content[i].n]]

\* Mutant: the text is decoded from the sniffed sample, not the whole file.
ReadText_SampleOnly(content) == Latin1Decode(ReadBytes(content, SampleSize))

\* Lines 121-126: filepath.read_text as UTF-8, and as latin-1 when that
\* raises UnicodeDecodeError (latin-1 decodes every byte sequence).
ReadText(content) ==
    IF Utf8DecodeFails(content) THEN Latin1Decode(content) ELSE Utf8Decode(content)

\* str.isspace() of a code point below 256.
IsSpace(c) == c \in {9, 10, 11, 12, 13, 28, 29, 30, 31, 32, 133, 160}

\* Mutant: the check is "not content", true of the empty text only.
StripIsEmpty_EmptyOnly(text) == \A i \in DOMAIN text : text[i].n = 0

\* not content.strip(): the text is empty or whitespace only.
StripIsEmpty(text) == \A i \in DOMAIN text : text[i].n = 0 \/ IsSpace(text[i].c)

\* len(text): the number of characters.
RECURSIVE TextLen(_)
TextLen(text) == IF text = << >> THEN 0 ELSE Head(text).n + TextLen(Tail(text))

(***************************************************************************)
(* tokenizer.py                                                            *)
(***************************************************************************)
\* len(tokenizer.encode(text)) for the external encoding: the merges of the
\* byte-pair encoding are abstracted to pairs of equal neighbours, so a
\* non-empty text (whitespace included) has at least one token.
RECURSIVE EncodeLen(_)
EncodeLen(text) ==
    IF text = << >> THEN 0
    ELSE ((Head(text).n + 1) \div 2) + EncodeLen(Tail(text))

\* _get_tokenizer: the cached instance, loaded on first use; raises
\* RuntimeError when tiktoken.get_encoding fails (init_ok false).
\* [raised, tokenizer]: whether it raised, and the global afterwards.
GetTokenizer(tok, init_ok) ==
    IF tok = "None"
    THEN IF init_ok THEN [raised |-> FALSE, tokenizer |-> "loaded"]
         ELSE [raised |-> TRUE, tokenizer |-> "None"]
    ELSE [raised |-> FALSE, tokenizer |-> tok]

\* count_tokens_for_text: [raised, value, tokenizer, encoded].
count_tokens_for_text(text, tok, init_ok) ==
    IF TextLen(text) = 0
    THEN [raised |-> FALSE, value |-> 0, tokenizer |-> tok, encoded |-> FALSE]
    ELSE LET g == GetTokenizer(tok, init_ok)
         IN IF g.raised
            THEN [raised |-> TRUE, value |-> 0, tokenizer |-> g.tokenizer,
                  encoded |-> FALSE]
            ELSE [raised |-> FALSE, value |-> EncodeLen(text),
                  tokenizer |-> g.tokenizer, encoded |-> TRUE]

(***************************************************************************)
(* calculator.py: the classifier and the file processor.  A file is a      *)
(* record [path, kind, readable, content].                                 *)
(***************************************************************************)
\* Mutant: the whole file is searched, not the sample.
is_binary_file_WholeFile(f, sample_size) ==
    IF ~f.readable THEN TRUE ELSE HasNullByte(f.content)

\* is_binary_file: a null byte in the sample, or the open fails.
is_binary_file(f, sample_size) ==
    IF ~f.readable THEN TRUE
    ELSE HasNullByte(ReadBytes(f.content, sample_size))

\* Mutant: a file without extension is not sniffed and not taken for text.
is_likely_text_file_ByNameOnly(f) ==
    \/ Lower(Suffix(PathName(f.path))) \in DEFAULT_INCLUDE_EXTENSIONS
    \/ PathName(f.path) \in TEXT_FILENAMES_WITHOUT_EXTENSION

\* is_likely_text_file
is_likely_text_file(f) ==
    IF Lower(Suffix(PathName(f.path))) \in DEFAULT_INCLUDE_EXTENSIONS THEN TRUE
    ELSE IF PathName(f.path) \in TEXT_FILENAMES_WITHOUT_EXTENSION THEN TRUE
    ELSE IF Suffix(PathName(f.path)) = << >>
    THEN ~is_binary_file(f, SampleSize)
    ELSE FALSE

\* The number of times is_likely_text_file opens the file.
LikelyTextSniffs(f) ==
    IF /\ Lower(Suffix(PathName(f.path))) \notin DEFAULT_INCLUDE_EXTENSIONS
       /\ PathName(f.path) \notin TEXT_FILENAMES_WITHOUT_EXTENSION
       /\ Suffix(PathName(f.path)) = << >>
    THEN 1 ELSE 0

\* A status message: the text of the f-string and the value put into it.
Status(msg, arg) == [msg |-> msg, arg |-> arg]

\* status_msg None
NoStatus == Status("None", << >>)

\* token_count None, and an integer token count.
NoTokens == << >>

Tokens(n) == <<n>>

\* What one call of process_file returns and does: the returned pair, the
\* checks it evaluated in order, how often it opened the file to sniff it,
\* whether it read the content, whether the tokenizer encoded it, and the
\* global tokenizer afterwards.
Outcome(token_count, status, checks, sniffs, read, c) ==
    [token_count |-> token_count, status |-> status, checks |-> checks,
     sniffs |-> sniffs, read |-> read, encoded |-> c.encoded,
     tokenizer |-> c.tokenizer]

\* The tokenizer untouched.
NotCounted(tok) == [encoded |-> FALSE, tokenizer |-> tok]

\* Lines 120-138: the content is read, then counted.
ReadAndCount(f, sniffs, tok, init_ok) ==
    LET checks4 == <<"excluded_extension", "classification", "binary_recheck", "read">>
        text == ReadText(f.content)
        counted == count_tokens_for_text(text, tok, init_ok)
    IN IF ~f.readable
       THEN Outcome(NoTokens, Status("Error reading file: {e_read}", << >>),
                    checks4, sniffs, FALSE, NotCounted(tok))
       ELSE IF StripIsEmpty(text)
       THEN Outcome(Tokens(0), Status("Empty or whitespace-only file", << >>),
                    checks4 \o <<"empty">>, sniffs, TRUE, NotCounted(tok))
       ELSE IF counted.raised
       THEN Outcome(NoTokens, Status("Unexpected error processing file: {e}", << >>),
                    checks4 \o <<"empty", "count">>, sniffs, TRUE, counted)
       ELSE Outcome(Tokens(counted.value), NoStatus,
                    checks4 \o <<"empty", "count">>, sniffs, TRUE, counted)

\* Lines 104-138: the classification, the binary re-check, the read and
\* the count of a file whose extension the user has not excluded.
ClassifyAndCount(f, tok, init_ok) ==
    LET file_extension_lower == Lower(Suffix(PathName(f.path)))
        s1 == LikelyTextSniffs(f)
    IN IF ~is_likely_text_file(f)
       THEN IF file_extension_lower /= << >>
            THEN Outcome(NoTokens,
                         Status("Skipped (extension {} not in default inclusion list)",
                                file_extension_lower),
                         <<"excluded_extension", "classification">>, s1, FALSE,
                         NotCounted(tok))
            ELSE IF Suffix(PathName(f.path)) = << >> /\ is_binary_file(f, SampleSize)
            THEN Outcome(NoTokens,
                         Status("Skipped (binary file without extension)", << >>),
                         <<"excluded_extension", "classification">>, s1 + 1, FALSE,
                         NotCounted(tok))
            ELSE Outcome(NoTokens,
                         Status("Skipped (file type not recognized or not in default inclusion list)",
                                << >>),
                         <<"excluded_extension", "classification">>,
                         s1 + (IF Suffix(PathName(f.path)) = << >> THEN 1 ELSE 0),
                         FALSE, NotCounted(tok))
       ELSE IF is_binary_file(f, SampleSize)
       THEN Outcome(NoTokens,
                    Status("Skipped (binary content detected in recognized text file type)",
                           << >>),
                    <<"excluded_extension", "classification", "binary_recheck">>,
                    s1 + 1, FALSE, NotCounted(tok))
       ELSE ReadAndCount(f, s1 + 1, tok, init_ok)

\* Mutant: the extension is compared as written, not lower-cased.
ExcludedExtension_AsWritten(f, exclude_extensions) ==
    /\ Suffix(PathName(f.path)) /= << >>
    /\ Suffix(PathName(f.path)) \in exclude_extensions

\* Lines 98-102: the file has an extension and the user excluded it.
ExcludedExtension(f, exclude_extensions) ==
    /\ Lower(Suffix(PathName(f.path))) /= << >>
    /\ Lower(Suffix(PathName(f.path))) \in exclude_extensions

\* Line 102: the outcome of a file with an excluded extension.
ExcludedOutcome(f, tok) ==
    Outcome(NoTokens,
            Status("Skipped (excluded extension: {})", Lower(Suffix(PathName(f.path)))),
            <<"excluded_extension">>, 0, FALSE, NotCounted(tok))

\* Mutant: the user's exclusion is tested after the content checks, and
\* decides only for a file they let through.
process_file_ExclusionLast(f, exclude_extensions, tok, init_ok) ==
    IF ~is_likely_text_file(f) \/ is_binary_file(f, SampleSize)
    THEN ClassifyAndCount(f, tok, init_ok)
    ELSE IF ExcludedExtension(f, exclude_extensions) THEN ExcludedOutcome(f, tok)
    ELSE ClassifyAndCount(f, tok, init_ok)

\* process_file
process_file(f, exclude_extensions, tok, init_ok) ==
    IF ExcludedExtension(f, exclude_extensions) THEN ExcludedOutcome(f, tok)
    ELSE ClassifyAndCount(f, tok, init_ok)

(***************************************************************************)
(* The filesystem and the command line.                                    *)
(***************************************************************************)
N_a_py == <<"a", ".", "p", "y">>

N_B_Py == <<"B", ".", "P", "y">>

N_c_log == <<"c", ".", "l", "o", "g">>

N_build == <<"b", "u", "i", "l", "d">>

N_sub == <<"s", "u", "b">>

N_README == <<"R", "E", "A", "D", "M", "E">>

N_data == <<"d", "a", "t", "a">>

\* The names a directory may have, and the names a file may have.
DirNames == {N_build, N_sub}

FileNames == {N_a_py, N_B_Py, N_c_log, N_build, N_README, N_data}

\* The file names of the trees that hold several entries.
WalkFileNames == {N_a_py, N_c_log, N_build}

\* The byte values of the contents: NUL, space, "a", and 0xFF (no UTF-8).
ByteValues == {0, 32, 97, 255}

\* The lengths of a run: one byte, or a whole sample.
RunLens == {1, SampleSize}

Runs == [b : ByteValues, n : RunLens]

\* The run-length encodings of at most n runs: neighbouring runs differ in
\* their byte, so that a content has one encoding.
RECURSIVE Encodings(_)
Encodings(n) ==
    IF n = 0 THEN {<< >>}
    ELSE Encodings(n - 1) \cup
         UNION {{Append(q, r) : r \in {x \in Runs : q = << >> \/ x.b /= q[Len(q)].b}} :
                   q \in {s \in Encodings(n - 1) : Len(s) = n - 1}}

\* Every content of at most MaxRuns runs.
Contents == Encodings(MaxRuns)

\* What a file is besides its path: [readable, content].
FileState(readable, content) == [readable |-> readable, content |-> content]

\* The files of the trees that hold several entries: a text, or a text with
\* a null byte.
WalkFileStates ==
    { FileState(TRUE, <<[b |-> 97, n |-> 1]>>), FileState(TRUE, <<[b |-> 0, n |-> 1]>>) }

\* Every file: of each content, or one that cannot be opened.
AllFileStates == {FileState(TRUE, c) : c \in Contents} \cup {FileState(FALSE, << >>)}

File(path, state) ==
    [path |-> path, kind |-> "file", readable |-> state.readable,
     content |-> state.content]

Dir(path) == [path |-> path, kind |-> "dir", readable |-> TRUE, content |-> << >>]

\* The entries with the given path: a directory, or a file in each state.
EntriesAt(path, fileNames, fileStates) ==
    (IF PathName(path) \in DirNames THEN {Dir(path)} ELSE {})
    \cup (IF PathName(path) \in fileNames
          THEN {File(path, s) : s \in fileStates}
          ELSE {})

\* The entries that may be added to a tree: below the root or below one of
\* its directories, at a path the tree does not hold.
Addable(tree) ==
    LET parents == {<< >>} \cup {d.path : d \in {e \in tree : e.kind = "dir"}}
        paths == {Append(q, nm) : q \in parents, nm \in DirNames \cup WalkFileNames}
    IN UNION {EntriesAt(q, WalkFileNames, WalkFileStates) :
                 q \in {r \in paths : \A e \in tree : e.path /= r}}

RECURSIVE TreesOfSize(_)
TreesOfSize(n) ==
    IF n = 0 THEN {{}}
    ELSE UNION {{tree \cup {e} : e \in Addable(tree)} : tree \in TreesOfSize(n - 1)}

\* The trees of at most MaxEntries entries whose files are short, and the
\* trees of one file in every state.
Trees ==
    UNION {TreesOfSize(n) : n \in 0..MaxEntries}
    \cup {{e} : e \in UNION {EntriesAt(<<nm>>, FileNames, AllFileStates) : nm \in FileNames}}

\* The patterns of the command line: ".", "\.py$" and "*invalid[".
Patterns ==
    { <<".">>, <<"\\", ".", "p", "y", "$">>,
      <<"*", "i", "n", "v", "a", "l", "i", "d", "[">> }

\* The values of --exclude-dirs after the split at ",": none, or "sub".
ExcludeDirsArgs == { {}, {N_sub} }

\* The values of --exclude-extensions after the split at ",": none, " Py"
\* (no dot, upper case, a space around it), or ".log".
ExcludeExtensionsArgs == { {}, {<<" ", "P", "y">>}, {<<".", "l", "o", "g">>} }

(***************************************************************************)
(* The state.                                                              *)
(***************************************************************************)
VARIABLES
    fs,               \* [is_dir, entries]: whether the root is a directory, and the entries below it
    args,             \* the parsed command line of main_cli
    tiktoken_ok,      \* whether tiktoken.get_encoding succeeds in this process
    tokenizer,        \* the global _tokenizer of tokenizer.py: "None" or "loaded"
    pc,               \* "main_cli", "walk", "returned", "exit"
    results,          \* the results dict of process_directory
    processed_paths,  \* the set processed_paths of process_directory
    trace,            \* per file: the checks evaluated and the accesses made
    exit_status       \* << >> while the process runs, <<code>> once it ended

vars == <<fs, args, tiktoken_ok, tokenizer, pc, results, processed_paths, trace,
          exit_status>>

Range(s) == {s[i] : i \in DOMAIN s}

(***************************************************************************)
(* main.py: the sets main_cli passes to process_directory.                 *)
(***************************************************************************)
\* Lines 178-180: the defaults and the stripped, non-empty names given.
CliExcludeDirs(given) ==
    DEFAULT_EXCLUDE_DIRS \cup {Strip(d) : d \in {x \in given : Strip(x) /= << >>}}

\* Lines 182-189: stripped, lower-cased, non-empty, with a leading dot.
CliExcludeExtensions(given) ==
    {IF StartsWithDot(Lower(Strip(x))) THEN Lower(Strip(x))
     ELSE <<".">> \o Lower(Strip(x)) : x \in {y \in given : Lower(Strip(y)) /= << >>}}

(***************************************************************************)
(* calculator.py: process_directory.                                       *)
(***************************************************************************)
\* Lines 207-210: exclude_dirs is [given, value]; not given is None.
ExcludeDirsSet(exclude_dirs) ==
    IF ~exclude_dirs.given THEN DEFAULT_EXCLUDE_DIRS ELSE exclude_dirs.value

\* Lines 212-219: each extension lower-cased, stripped, with a leading dot.
CleanExcludeExtensions(exclude_extensions) ==
    {IF StartsWithDot(Strip(Lower(x))) THEN Strip(Lower(x))
     ELSE <<".">> \o Strip(Lower(x)) : x \in exclude_extensions}

\* The two sets of the running call, from the command line.
exclude_dirs_set ==
    ExcludeDirsSet([given |-> TRUE, value |-> CliExcludeDirs(args.exclude_dirs)])

current_exclude_extensions_set ==
    CleanExcludeExtensions(CliExcludeExtensions(args.exclude_extensions))

\* The summary with every counter zero.
ZeroSummary ==
    [total_files_processed_successfully |-> 0,
     total_files_with_errors |-> 0,
     total_files_skipped |-> 0,
     total_tokens |-> 0,
     directories_explicitly_skipped |-> << >>]

\* Lines 180-190 and 195-205: the report of a scan that failed outright.
ErrorReport(msg, arg) ==
    [files |-> << >>, summary |-> ZeroSummary, errors |-> <<Status(msg, arg)>>]

\* Lines 221-231
EmptyResults == [files |-> << >>, summary |-> ZeroSummary, errors |-> << >>]

\* Mutant: only the entry's own test, without the directories above it.
IsInExcludedDir_SelfOnly(e, excluded) ==
    e.kind = "dir" /\ PathName(e.path) \in excluded

\* Lines 243-268: the entry is a directory with an excluded name, or a
\* directory above it (below the root) has one, or any component of its
\* relative path, its own name included, has one.
IsInExcludedDir(e, excluded) ==
    \/ e.kind = "dir" /\ PathName(e.path) \in excluded
    \/ \E i \in 1..(Len(e.path) - 1) : e.path[i] \in excluded
    \/ \E i \in DOMAIN e.path : e.path[i] \in excluded

\* Mutant: the directory exclusion is tested before the pattern.
WalkFilter_DirFirst(e, rel_path_str, pattern, excluded) ==
    IF \E i \in DOMAIN e.path : e.path[i] \in excluded THEN "excluded_dir"
    ELSE IF ~ReSearch(pattern, rel_path_str) THEN "regex"
    ELSE "process_file"

\* Lines 271-296: what the walk does with a file: "regex" (skipped, the
\* pattern does not match its relative path), "excluded_dir" (skipped), or
\* "process_file".
WalkFilter(e, rel_path_str, pattern, excluded) ==
    IF ~ReSearch(pattern, rel_path_str) THEN "regex"
    ELSE IF IsInExcludedDir(e, excluded) THEN "excluded_dir"
    ELSE "process_file"

\* Mutant: the pattern is compiled before the root is checked.
Validate_RegexFirst(is_dir, pattern) ==
    IF ~ReCompiles(pattern) THEN "invalid_regex"
    ELSE IF ~is_dir THEN "invalid_directory"
    ELSE "ok"

\* Lines 178-205: the root is checked, then the pattern compiled.
Validate(is_dir, pattern) ==
    IF ~is_dir THEN "invalid_directory"
    ELSE IF ~ReCompiles(pattern) THEN "invalid_regex"
    ELSE "ok"

\* Lines 285-289: the first component with an excluded name.
OffendingDirPart(path, excluded) ==
    LET hits == {i \in DOMAIN path : path[i] \in excluded}
    IN IF hits = {} THEN <<"u", "n", "k", "n", "o", "w", "n">>
       ELSE path[CHOOSE i \in hits : \A j \in hits : i <= j]

\* Lines 245-247 and 318-320: an excluded directory is listed once.
ListSkippedDir(dirs, e, rel_path_str, excluded) ==
    IF e.kind = "dir" /\ PathName(e.path) \in excluded /\ rel_path_str \notin Range(dirs)
    THEN Append(dirs, rel_path_str)
    ELSE dirs

FileRecord(rel_path_str, tokens, status) ==
    [path |-> rel_path_str, tokens |-> tokens, status |-> status]

\* Mutant: the record of a skipped file is appended and no counter moved.
SkipFile_Uncounted(res, rel_path_str, status) ==
    [res EXCEPT !.files = Append(@, FileRecord(rel_path_str, NoTokens, status))]

\* Lines 274-279 and 283-294: a file skipped by the walk itself.
SkipFile(res, rel_path_str, status) ==
    [res EXCEPT !.summary.total_files_skipped = @ + 1,
                !.files = Append(@, FileRecord(rel_path_str, NoTokens, status))]

\* Mutant: a file without a token count is counted and gets no record.
RecordOutcome_FailureUnrecorded(res, rel_path_str, o) ==
    IF o.token_count /= NoTokens
    THEN [res EXCEPT
            !.files = Append(@, FileRecord(rel_path_str, o.token_count, o.status)),
            !.summary.total_tokens = @ + o.token_count[1],
            !.summary.total_files_processed_successfully = @ + 1]
    ELSE [res EXCEPT !.summary.total_files_with_errors = @ + 1]

\* Lines 302-317: the outcome of process_file is recorded and counted.
RecordOutcome(res, rel_path_str, o) ==
    IF o.token_count /= NoTokens
    THEN [res EXCEPT
            !.files = Append(@, FileRecord(rel_path_str, o.token_count,
                                 IF o.status /= NoStatus THEN o.status
                                 ELSE Status("Processed", << >>))),
            !.summary.total_tokens = @ + o.token_count[1],
            !.summary.total_files_processed_successfully = @ + 1]
    ELSE [res EXCEPT
            !.files = Append(@, FileRecord(rel_path_str, NoTokens, o.status)),
            !.summary.total_files_with_errors = @ + 1]

\* Mutant: each record is put in front of those before it.
InsertByPath_Front(sorted, rec) == <<rec>> \o sorted

\* list.sort(key=path): a stable insertion into the sorted prefix.
RECURSIVE InsertByPath(_, _)
InsertByPath(sorted, rec) ==
    IF sorted = << >> THEN <<rec>>
    ELSE IF StrLess(rec.path, Head(sorted).path) THEN <<rec>> \o sorted
    ELSE <<Head(sorted)>> \o InsertByPath(Tail(sorted), rec)

\* Mutant: the records stay in the order of the walk.
SortByPath_Unsorted(files) == files

RECURSIVE SortByPath(_)
SortByPath(files) ==
    IF files = << >> THEN << >>
    ELSE InsertByPath(SortByPath(SubSeq(files, 1, Len(files) - 1)), files[Len(files)])

\* sorted(list(set(dirs)))
RECURSIVE SortedSet(_)
SortedSet(S) ==
    IF S = {} THEN << >>
    ELSE LET m == CHOOSE x \in S : \A y \in S : x = y \/ StrLess(x, y)
         IN <<m>> \o SortedSet(S \ {m})

(***************************************************************************)
(* The initial states: a filesystem, a command line, and a process in      *)
(* which the tokenizer can or cannot be loaded.                            *)
(***************************************************************************)
Init ==
    /\ fs \in {[is_dir |-> FALSE, entries |-> {}]}
              \cup {[is_dir |-> TRUE, entries |-> tree] : tree \in Trees}
    /\ args \in [file_regex_pattern : Patterns,
                 exclude_dirs : ExcludeDirsArgs,
                 exclude_extensions : ExcludeExtensionsArgs]
    /\ tiktoken_ok \in BOOLEAN
    /\ tokenizer = "None"
    /\ pc = "main_cli"
    /\ results = EmptyResults
    /\ processed_paths = {}
    /\ trace = {}
    /\ exit_status = << >>

(***************************************************************************)
(* The steps.                                                              *)
(***************************************************************************)
\* main_cli calls process_directory, whose root is no directory
\* (calculator.py lines 178-190).
InvalidDirectory ==
    /\ pc = "main_cli"
    /\ Validate(fs.is_dir, args.file_regex_pattern) = "invalid_directory"
    /\ results' = ErrorReport("Error: Path '{}' is not a valid directory or not accessible.",
                              << >>)
    /\ pc' = "returned"
    /\ UNCHANGED <<fs, args, tiktoken_ok, tokenizer, processed_paths, trace, exit_status>>

\* The root is a directory and the pattern does not compile (lines 192-205).
InvalidRegex ==
    /\ pc = "main_cli"
    /\ Validate(fs.is_dir, args.file_regex_pattern) = "invalid_regex"
    /\ results' = ErrorReport("Error: Invalid regex pattern '{}': {e}",
                              args.file_regex_pattern)
    /\ pc' = "returned"
    /\ UNCHANGED <<fs, args, tiktoken_ok, tokenizer, processed_paths, trace, exit_status>>

\* Both are valid: the sets are prepared and the walk begins (lines 207-233).
StartWalk ==
    /\ pc = "main_cli"
    /\ Validate(fs.is_dir, args.file_regex_pattern) = "ok"
    /\ results' = EmptyResults
    /\ processed_paths' = {}
    /\ pc' = "walk"
    /\ UNCHANGED <<fs, args, tiktoken_ok, tokenizer, trace, exit_status>>

\* What the walk notes of a file: the checks in the order evaluated.
Traced(rel_path_str, checks, sniffs, read, encoded) ==
    [path |-> rel_path_str, checks |-> checks, sniffs |-> sniffs, read |-> read,
     encoded |-> encoded]

\* rglob("*") may yield e next: an entry not yet yielded, whose directory was
\* yielded (line 235).
RglobYields(e) ==
    /\ e \in fs.entries
    /\ e.path \notin processed_paths
    /\ Len(e.path) = 1 \/ Parent(e.path) \in processed_paths

\* rglob("*") has yielded every entry.
RglobExhausted == \A e \in fs.entries : e.path \in processed_paths

\* One iteration of the loop over rglob("*") (lines 235-320).  rglob yields
\* a directory before the entries below it, and the entries of one
\* directory in no particular order.
VisitEntry(e) ==
    /\ pc = "walk"
    /\ RglobYields(e)
    /\ processed_paths' = processed_paths \cup {e.path}
    /\ LET rel_path_str == RelPathStr(e.path)
           listed == [results EXCEPT !.summary.directories_explicitly_skipped =
                         ListSkippedDir(@, e, rel_path_str, exclude_dirs_set)]
           o == process_file(e, current_exclude_extensions_set, tokenizer, tiktoken_ok)
           filter == WalkFilter(e, rel_path_str, args.file_regex_pattern, exclude_dirs_set)
       IN IF e.kind = "file"
          THEN IF filter = "regex"
               THEN /\ results' = SkipFile(listed, rel_path_str,
                                      Status("Skipped (did not match regex: '{}')",
                                             args.file_regex_pattern))
                    /\ trace' = trace \cup {Traced(rel_path_str, <<"regex">>, 0, FALSE, FALSE)}
                    /\ UNCHANGED tokenizer
               ELSE IF filter = "excluded_dir"
               THEN /\ results' = SkipFile(listed, rel_path_str,
                                      Status("Skipped (in or under excluded directory '{}')",
                                             OffendingDirPart(e.path, exclude_dirs_set)))
                    /\ trace' = trace \cup {Traced(rel_path_str, <<"regex", "excluded_dir">>,
                                                   0, FALSE, FALSE)}
                    /\ UNCHANGED tokenizer
               ELSE /\ results' = RecordOutcome(listed, rel_path_str, o)
                    /\ trace' = trace \cup {Traced(rel_path_str,
                                                   <<"regex", "excluded_dir">> \o o.checks,
                                                   o.sniffs, o.read, o.encoded)}
                    /\ tokenizer' = o.tokenizer
          ELSE /\ results' = [listed EXCEPT !.summary.directories_explicitly_skipped =
                                 ListSkippedDir(@, e, rel_path_str, exclude_dirs_set)]
               /\ UNCHANGED <<tokenizer, trace>>
    /\ UNCHANGED <<fs, args, tiktoken_ok, pc, exit_status>>

\* rglob is exhausted: the lists are sorted and the report returned
\* (lines 323-328).
FinishWalk ==
    /\ pc = "walk"
    /\ RglobExhausted
    /\ results' = [results EXCEPT
                      !.files = SortByPath(@),
                      !.summary.directories_explicitly_skipped = SortedSet(Range(@))]
    /\ pc' = "returned"
    /\ UNCHANGED <<fs, args, tiktoken_ok, tokenizer, processed_paths, trace, exit_status>>

\* main_cli prints the report and returns: it calls sys.exit nowhere after
\* the scan, so the process ends with status 0 (main.py lines 214-229).
MainCliReturn ==
    /\ pc = "returned"
    /\ exit_status' = <<0>>
    /\ pc' = "exit"
    /\ UNCHANGED <<fs, args, tiktoken_ok, tokenizer, results, processed_paths, trace>>

Next ==
    \/ InvalidDirectory
    \/ InvalidRegex
    \/ StartWalk
    \/ \E e \in fs.entries : VisitEntry(e)
    \/ FinishWalk
    \/ MainCliReturn

Spec == Init /\ [][Next]_vars

(***************************************************************************)
(* The claims.                                                             *)
(***************************************************************************)
\* process_directory has returned its report.
Returned == pc \in {"returned", "exit"}

\* The files of the tree that the walk has reached.
VisitedFiles == {e \in fs.entries : e.kind = "file" /\ e.path \in processed_paths}

\* The positions of the records of a relative path.
RecordsOf(rel_path_str) ==
    {i \in DOMAIN results.files : results.files[i].path = rel_path_str}

\* The number of records whose status message is one of msgs.
CountStatus(msgs) ==
    Cardinality({i \in DOMAIN results.files : results.files[i].status.msg \in msgs})

\* The statuses of the walk's own skips, of the exclusion and classification
\* skips of process_file, and of its read and processing failures.
WalkSkipMsgs ==
    { "Skipped (did not match regex: '{}')",
      "Skipped (in or under excluded directory '{}')" }

FileSkipMsgs ==
    { "Skipped (excluded extension: {})",
      "Skipped (extension {} not in default inclusion list)",
      "Skipped (binary file without extension)",
      "Skipped (file type not recognized or not in default inclusion list)",
      "Skipped (binary content detected in recognized text file type)" }

FailureMsgs ==
    { "Error reading file: {e_read}", "Unexpected error processing file: {e}" }

\* C1: every exclusion or classification skip of a file handed to
\* process_file is counted in total_files_skipped and not in
\* total_files_with_errors; only read and decoding failures are counted as
\* errors.  Stated for the trees whose files can all be opened, where no
\* skip can be taken for a read failure.
C1_SkipsCountedAsSkipped ==
    (\A e \in fs.entries : e.readable) =>
        /\ results.summary.total_files_with_errors = CountStatus(FailureMsgs)
        /\ results.summary.total_files_skipped =
               CountStatus(WalkSkipMsgs \cup FileSkipMsgs)

\* C2: a failure to initialize the tokenizer is fatal to the run: no report
\* is returned in which the failure is the status of a file's record.
C2_TokenizerFailureIsFatal ==
    Returned =>
        \A i \in DOMAIN results.files :
            results.files[i].status.msg /= "Unexpected error processing file: {e}"

\* C3: main_cli ends with a non-zero exit status exactly when the report
\* has general errors; per-file errors and skips alone end it with zero.
C3_ExitStatusSignalsGeneralErrors ==
    pc = "exit" => (exit_status = <<0>> <=> results.errors = << >>)

\* The record of the only trace entry of a relative path.
TraceOf(rel_path_str) == {tr \in trace : tr.path = rel_path_str}

\* The visited files that the walk handed to process_file.
HandedFiles ==
    {e \in VisitedFiles :
        \E tr \in TraceOf(RelPathStr(e.path)) : "excluded_extension" \in Range(tr.checks)}

\* The content is empty or spaces only.
WhitespaceOnly(content) == \A i \in DOMAIN content : content[i].b = 32

\* The content holds no null byte.
NullFree(content) == \A i \in DOMAIN content : content[i].b /= 0

\* The lower-cased extension of a file.
ExtOf(e) == Lower(Suffix(PathName(e.path)))

\* The record of e says: token count 0, the empty-file status, no tokenizer.
RecordedEmpty(e) ==
    /\ RecordsOf(RelPathStr(e.path)) /= {}
    /\ \A i \in RecordsOf(RelPathStr(e.path)) :
          /\ results.files[i].tokens = Tokens(0)
          /\ results.files[i].status = Status("Empty or whitespace-only file", << >>)
    /\ \A tr \in TraceOf(RelPathStr(e.path)) : ~tr.encoded

\* C4 as claimed: every file handed to process_file whose content is empty
\* or whitespace only gets token count 0 and the empty-file status, whatever
\* its extension, in the default inclusion list or not, and the tokenizer is
\* not invoked.  Stated for the extensions the user did not exclude.
C4_EmptyWhateverExtension ==
    \A e \in HandedFiles :
        /\ e.readable
        /\ WhitespaceOnly(e.content)
        /\ ExtOf(e) \notin current_exclude_extensions_set
        => RecordedEmpty(e)

\* C4 as amended: every readable file handed to process_file whose content
\* is empty or whitespace only, and whose extension is empty or in the
\* default inclusion list and not excluded by the user, gets token count 0
\* and the empty-file status, and the tokenizer is not invoked.
C4_EmptyWhenExtensionAdmitted ==
    \A e \in HandedFiles :
        /\ e.readable
        /\ WhitespaceOnly(e.content)
        /\ ExtOf(e) = << >> \/ ExtOf(e) \in DEFAULT_INCLUDE_EXTENSIONS
        /\ ExtOf(e) \notin current_exclude_extensions_set
        => RecordedEmpty(e)

\* C4's case: a file of spaces with an admitted extension was recorded.
C4_Witness ==
    \E e \in HandedFiles :
        /\ e.readable /\ e.content /= << >> /\ WhitespaceOnly(e.content)
        /\ ExtOf(e) \in DEFAULT_INCLUDE_EXTENSIONS
        /\ ExtOf(e) \notin current_exclude_extensions_set
        /\ RecordedEmpty(e)

\* The characters of a content: in the model every character is one byte.
CharsOf(content) == [i \in DOMAIN content |-> [c |-> content[i].b, n |-> content[i].n]]

\* What count_tokens_for_text makes of the whole content of e.
CounterOn(e) == count_tokens_for_text(CharsOf(e.content), tokenizer, tiktoken_ok)

\* C5 as claimed, for the files that reach the read: a readable file with
\* an extension of the default inclusion list, not excluded by the user,
\* free of null bytes and handed to process_file in a process whose tokenizer
\* loads, is recorded with the token counter's result on its content.
C5_CountIsTokenCounterResult ==
    \A e \in HandedFiles :
        /\ e.readable /\ tiktoken_ok
        /\ ExtOf(e) \in DEFAULT_INCLUDE_EXTENSIONS
        /\ ExtOf(e) \notin current_exclude_extensions_set
        /\ NullFree(e.content)
        => /\ RecordsOf(RelPathStr(e.path)) /= {}
           /\ \A i \in RecordsOf(RelPathStr(e.path)) :
                 results.files[i].tokens = Tokens(CounterOn(e).value)

\* C5 as amended: for such a file, in any process, the record holds 0 when
\* the text is empty or whitespace only (the counter is not called, and
\* would return a positive count for spaces); otherwise it holds the
\* counter's result on the text read, and no token count when the counter
\* raises because the tokenizer does not load.
C5_CountIsCounterResultUnlessBlank ==
    \A e \in HandedFiles :
        /\ e.readable
        /\ ExtOf(e) \in DEFAULT_INCLUDE_EXTENSIONS
        /\ ExtOf(e) \notin current_exclude_extensions_set
        /\ NullFree(e.content)
        => /\ RecordsOf(RelPathStr(e.path)) /= {}
           /\ \A i \in RecordsOf(RelPathStr(e.path)) :
                 results.files[i].tokens =
                     IF WhitespaceOnly(e.content) THEN Tokens(0)
                     ELSE IF tiktoken_ok
                     THEN Tokens(count_tokens_for_text(CharsOf(e.content), "loaded",
                                                       TRUE).value)
                     ELSE NoTokens

\* C5's case: a file longer than the sample was counted.
C5_Witness ==
    \E e \in HandedFiles :
        /\ ExtOf(e) \in DEFAULT_INCLUDE_EXTENSIONS
        /\ NullFree(e.content)
        /\ ByteLen(e.content) > SampleSize
        /\ \E i \in RecordsOf(RelPathStr(e.path)) :
              /\ results.files[i].tokens /= NoTokens
              /\ results.files[i].tokens[1] > 0

\* The components of a path that are excluded directory names.
ExcludedSegments(path) == {i \in DOMAIN path : path[i] \in exclude_dirs_set}

\* How often a relative path is listed in directories_explicitly_skipped.
TimesListed(rel_path_str) ==
    Cardinality({k \in DOMAIN results.summary.directories_explicitly_skipped :
                    results.summary.directories_explicitly_skipped[k] = rel_path_str})

\* C6: a file whose relative path has a component equal to an excluded
\* directory name has a record and never one with a token count, and in the
\* returned report the topmost directory of its path with such a name is
\* listed exactly once among the skipped directories.
C6_ExcludedSegmentNeverCounted ==
    \A e \in VisitedFiles :
        ExcludedSegments(e.path) /= {} =>
            /\ RecordsOf(RelPathStr(e.path)) /= {}
            /\ \A i \in RecordsOf(RelPathStr(e.path)) : results.files[i].tokens = NoTokens
            /\ \A k \in ExcludedSegments(e.path) :
                  /\ Returned
                  /\ k < Len(e.path)
                  /\ \A j \in ExcludedSegments(e.path) : k <= j
                  => TimesListed(RelPathStr(SubSeq(e.path, 1, k))) = 1

\* C6's case: the report holds a file below an excluded directory whose
\* path the pattern matches.
C6_Witness ==
    /\ Returned
    /\ \E e \in VisitedFiles :
          /\ Len(e.path) >= 2
          /\ e.path[1] \in exclude_dirs_set
          /\ ReSearch(args.file_regex_pattern, RelPathStr(e.path))
          /\ TimesListed(RelPathStr(SubSeq(e.path, 1, 1))) = 1

\* C7: a file whose relative path the pattern does not match has the
\* regex-mismatch status and no token count, wherever it lies and whatever
\* it holds; it is never opened; it is counted as skipped and not as an
\* error: the skipped counter counts the walk's own skips, and the error
\* counter only records that process_file left without a token count.
C7_RegexMismatchIsSkipped ==
    /\ \A e \in VisitedFiles :
          ~ReSearch(args.file_regex_pattern, RelPathStr(e.path)) =>
              /\ RecordsOf(RelPathStr(e.path)) /= {}
              /\ \A i \in RecordsOf(RelPathStr(e.path)) :
                    /\ results.files[i].tokens = NoTokens
                    /\ results.files[i].status =
                          Status("Skipped (did not match regex: '{}')",
                                 args.file_regex_pattern)
              /\ \A tr \in TraceOf(RelPathStr(e.path)) :
                    tr.sniffs = 0 /\ ~tr.read /\ ~tr.encoded
    /\ results.summary.total_files_skipped = CountStatus(WalkSkipMsgs)
    /\ results.summary.total_files_with_errors =
           Cardinality({i \in DOMAIN results.files :
                           /\ results.files[i].tokens = NoTokens
                           /\ results.files[i].status.msg \notin WalkSkipMsgs})

\* C7's case: a file with content, below an excluded directory, that the
\* pattern does not match, was recorded.
C7_Witness ==
    \E e \in VisitedFiles :
        /\ ~ReSearch(args.file_regex_pattern, RelPathStr(e.path))
        /\ Len(e.path) >= 2
        /\ e.path[1] \in exclude_dirs_set
        /\ e.content /= << >>
        /\ RecordsOf(RelPathStr(e.path)) /= {}

\* The checks of one file, in the order the code evaluates them.
CheckOrder ==
    << "regex", "excluded_dir", "excluded_extension", "classification",
       "binary_recheck", "read", "empty", "count" >>

\* Whether a check, taken alone, fires for a file: the pattern does not
\* match; a component is an excluded name; the user excluded the extension;
\* the classifier rejects the file; the sample holds a null byte or cannot
\* be read; the content cannot be read; the text is blank; and the count,
\* which ends every call that reaches it.
Fires(e, check) ==
    CASE check = "regex" -> ~ReSearch(args.file_regex_pattern, RelPathStr(e.path))
      [] check = "excluded_dir" -> ExcludedSegments(e.path) /= {}
      [] check = "excluded_extension" ->
             ExtOf(e) /= << >> /\ ExtOf(e) \in current_exclude_extensions_set
      [] check = "classification" -> ~is_likely_text_file(e)
      [] check = "binary_recheck" -> is_binary_file(e, SampleSize)
      [] check = "read" -> ~e.readable
      [] check = "empty" -> WhitespaceOnly(e.content)
      [] check = "count" -> TRUE

\* The position in CheckOrder of the first check that fires.
FirstFiring(e) ==
    CHOOSE k \in DOMAIN CheckOrder :
        /\ Fires(e, CheckOrder[k])
        /\ \A j \in 1..(k - 1) : ~Fires(e, CheckOrder[j])

\* The statuses each check gives.
StatusesOf(check) ==
    CASE check = "regex" -> {"Skipped (did not match regex: '{}')"}
      [] check = "excluded_dir" -> {"Skipped (in or under excluded directory '{}')"}
      [] check = "excluded_extension" -> {"Skipped (excluded extension: {})"}
      [] check = "classification" ->
             { "Skipped (extension {} not in default inclusion list)",
               "Skipped (binary file without extension)",
               "Skipped (file type not recognized or not in default inclusion list)" }
      [] check = "binary_recheck" ->
             {"Skipped (binary content detected in recognized text file type)"}
      [] check = "read" -> {"Error reading file: {e_read}"}
      [] check = "empty" -> {"Empty or whitespace-only file"}
      [] check = "count" -> {"Processed", "Unexpected error processing file: {e}"}

\* C8: every visited file has exactly one record, with the status of the
\* first check that fires in the order regex, directory exclusion, user
\* extension exclusion, classification, binary re-check, read, count; the
\* checks evaluated are those up to that one and no later one; and the
\* tokenizer encodes only when none of the earlier checks fired.
C8_FirstFiringCheckDecides ==
    \A e \in VisitedFiles :
        /\ Cardinality(RecordsOf(RelPathStr(e.path))) = 1
        /\ Cardinality(TraceOf(RelPathStr(e.path))) = 1
        /\ \A i \in RecordsOf(RelPathStr(e.path)) :
              results.files[i].status.msg \in StatusesOf(CheckOrder[FirstFiring(e)])
        /\ \A tr \in TraceOf(RelPathStr(e.path)) :
              /\ tr.checks = SubSeq(CheckOrder, 1, FirstFiring(e))
              /\ tr.encoded => FirstFiring(e) = Len(CheckOrder)
              /\ tr.read => FirstFiring(e) >= 7

\* C8's case: a file the user's exclusion stopped although its sample holds
\* a null byte, so that a later check would have fired too.
C8_Witness ==
    \E e \in VisitedFiles :
        /\ Fires(e, "excluded_extension")
        /\ Fires(e, "binary_recheck")
        /\ e.readable
        /\ \E tr \in TraceOf(RelPathStr(e.path)) :
              tr.checks = <<"regex", "excluded_dir", "excluded_extension">>

\* C9: when the root is no directory, or it is one and the pattern does not
\* compile, the report holds exactly one general error, no file record, zero
\* counters and no skipped directory; no entry was enumerated or opened; and
\* the root is tested first, so with both invalid the error is the
\* invalid-directory one.
C9_InvalidInputReport ==
    pc /= "main_cli" /\ (~fs.is_dir \/ ~ReCompiles(args.file_regex_pattern)) =>
        /\ Len(results.errors) = 1
        /\ results.errors[1].msg =
              IF ~fs.is_dir
              THEN "Error: Path '{}' is not a valid directory or not accessible."
              ELSE "Error: Invalid regex pattern '{}': {e}"
        /\ results.files = << >>
        /\ results.summary = ZeroSummary
        /\ processed_paths = {}
        /\ trace = {}
        /\ tokenizer = "None"

\* C9's case: the report of a root that holds a file, with a pattern that
\* does not compile.
C9_Witness ==
    /\ Returned
    /\ fs.is_dir
    /\ \E e \in fs.entries : e.kind = "file"
    /\ ~ReCompiles(args.file_regex_pattern)
    /\ Len(results.errors) = 1

\* C10: in the report of a scan that did not fail outright the records are
\* in strictly ascending order of their relative paths, so no path occurs
\* twice.
C10_FilesSortedAndUnique ==
    Returned /\ results.errors = << >> =>
        \A i, j \in DOMAIN results.files :
            i < j => StrLess(results.files[i].path, results.files[j].path)

\* C10's case: a report of two files that the walk met in descending order.
C10_Witness ==
    /\ Returned
    /\ Len(results.files) >= 2
    /\ \E e1, e2 \in fs.entries :
          /\ e1.kind = "file" /\ e2.kind = "file"
          /\ StrLess(RelPathStr(e1.path), RelPathStr(e2.path))
          /\ Len(e1.path) = 1 /\ Len(e2.path) = 2

\* The record that the code gives a file, whatever it did before:
\* [rec, counted] where counted is "ok", "error" or "skipped".
RecordFor(e) ==
    LET rel_path_str == RelPathStr(e.path)
        filter == WalkFilter(e, rel_path_str, args.file_regex_pattern, exclude_dirs_set)
        o == process_file(e, current_exclude_extensions_set, "None", tiktoken_ok)
    IN IF filter = "regex"
       THEN [rec |-> FileRecord(rel_path_str, NoTokens,
                                Status("Skipped (did not match regex: '{}')",
                                       args.file_regex_pattern)),
             counted |-> "skipped"]
       ELSE IF filter = "excluded_dir"
       THEN [rec |-> FileRecord(rel_path_str, NoTokens,
                                Status("Skipped (in or under excluded directory '{}')",
                                       OffendingDirPart(e.path, exclude_dirs_set))),
             counted |-> "skipped"]
       ELSE IF o.token_count /= NoTokens
       THEN [rec |-> FileRecord(rel_path_str, o.token_count,
                                IF o.status /= NoStatus THEN o.status
                                ELSE Status("Processed", << >>)),
             counted |-> "ok"]
       ELSE [rec |-> FileRecord(rel_path_str, NoTokens, o.status), counted |-> "error"]

\* The records of a set of files in ascending order of their paths.
RECURSIVE RecordsAscending(_)
RecordsAscending(S) ==
    IF S = {} THEN << >>
    ELSE LET m == CHOOSE x \in S :
                     \A y \in S : x = y \/ StrLess(RelPathStr(x.path), RelPathStr(y.path))
         IN <<RecordFor(m).rec>> \o RecordsAscending(S \ {m})

\* The paths of a set in ascending order.
RECURSIVE PathsAscending(_)
PathsAscending(S) ==
    IF S = {} THEN << >>
    ELSE LET m == CHOOSE x \in S : \A y \in S : x = y \/ StrLess(x, y)
         IN <<m>> \o PathsAscending(S \ {m})

\* The sum of the token counts of a sequence of records.
RECURSIVE SumTokens(_)
SumTokens(files) ==
    IF files = << >> THEN 0
    ELSE (IF Head(files).tokens = NoTokens THEN 0 ELSE Head(files).tokens[1])
         + SumTokens(Tail(files))

\* The report of a scan as a function of the tree, the request and the
\* process alone, with no reference to the order of the walk.
ReportOfTree ==
    LET files == {e \in fs.entries : e.kind = "file"}
        dirs == {e \in fs.entries : e.kind = "dir" /\ PathName(e.path) \in exclude_dirs_set}
        n(c) == Cardinality({e \in files : RecordFor(e).counted = c})
    IN [files |-> RecordsAscending(files),
        summary |->
            [total_files_processed_successfully |-> n("ok"),
             total_files_with_errors |-> n("error"),
             total_files_skipped |-> n("skipped"),
             total_tokens |-> SumTokens(RecordsAscending(files)),
             directories_explicitly_skipped |->
                 PathsAscending({RelPathStr(d.path) : d \in dirs})],
        errors |-> << >>]

\* C11: the report of a scan is the same whatever the order in which the
\* walk enumerates the entries: every returned report of a valid root and
\* pattern equals one value fixed by the tree, the request and the process,
\* so two scans of the same unmodified tree with the same request return
\* identical reports.
C11_ReportIndependentOfWalkOrder ==
    Returned /\ Validate(fs.is_dir, args.file_regex_pattern) = "ok" =>
        results = ReportOfTree

\* C11's case: a returned report of a root that holds an excluded directory
\* and two files of different outcomes side by side, which the walk may
\* meet in any order.
C11_Witness ==
    /\ Returned
    /\ Len(results.files) >= 2
    /\ Len(results.summary.directories_explicitly_skipped) >= 1
    /\ \E e1, e2 \in fs.entries :
          /\ e1.kind = "file" /\ e2.kind = "file" /\ e1 /= e2
          /\ Len(e1.path) = 1 /\ Len(e2.path) = 1
          /\ RecordFor(e1).counted /= RecordFor(e2).counted

\* Every file the walk has reached has exactly one record, and there is no
\* other record.
OneRecordPerVisitedFile ==
    /\ \A e \in VisitedFiles : Cardinality(RecordsOf(RelPathStr(e.path))) = 1
    /\ Len(results.files) = Cardinality(VisitedFiles)

\* The walk is over and every file of the tree has its record.
WalkCompleted ==
    /\ Returned
    /\ results.errors = << >>
    /\ VisitedFiles = {e \in fs.entries : e.kind = "file"}
    /\ OneRecordPerVisitedFile

UserExcludes(ext) ==
    \E x \in args.exclude_extensions :
        LET cleaned == Lower(Strip(x))
        IN /\ cleaned /= << >>
           /\ ext = (IF Head(cleaned) = "." THEN cleaned ELSE <<".">> \o cleaned)

\* The record of e is the excluded-extension skip and process_file neither
\* sniffed nor read the file.
RecordedExcludedExtension(e) ==
    /\ RecordsOf(RelPathStr(e.path)) /= {}
    /\ \A i \in RecordsOf(RelPathStr(e.path)) :
          /\ results.files[i].tokens = NoTokens
          /\ results.files[i].status = Status("Skipped (excluded extension: {})", ExtOf(e))
    /\ \A tr \in TraceOf(RelPathStr(e.path)) :
          /\ tr.sniffs = 0
          /\ ~tr.read
          /\ ~tr.encoded
          /\ tr.checks[Len(tr.checks)] = "excluded_extension"

\* C13: a file handed to process_file whose extension is not empty and,
\* lower-cased, is in the user's excluded-extension set gets the
\* excluded-extension skip status, also when the extension is in the
\* default inclusion list, and its content is neither sniffed nor read; a
\* file with no extension never gets that status.
C13_UserExclusionBeforeClassification ==
    \A e \in HandedFiles :
        /\ ExtOf(e) /= << >> /\ UserExcludes(ExtOf(e)) => RecordedExcludedExtension(e)
        /\ ExtOf(e) = << >> =>
              \A i \in RecordsOf(RelPathStr(e.path)) :
                  results.files[i].status.msg /= "Skipped (excluded extension: {})"

\* C13's case: B.Py, whose extension is in the default inclusion list and
\* whose content holds a null byte, was recorded under --exclude-extensions
\* " Py".
C13_Witness ==
    \E e \in HandedFiles :
        /\ PathName(e.path) = N_B_Py
        /\ HasNullByte(e.content)
        /\ ExtOf(e) \in DEFAULT_INCLUDE_EXTENSIONS
        /\ args.exclude_extensions = {<<" ", "P", "y">>}
        /\ RecordedExcludedExtension(e)

\* A directory between the root and the entry has an excluded name.
ExcludedAncestor(e) == \E i \in 1..(Len(e.path) - 1) : e.path[i] \in exclude_dirs_set

\* The walk skipped the file e by the directory-exclusion rule.
SkippedByDirectoryRule(e) ==
    \E i \in RecordsOf(RelPathStr(e.path)) :
        results.files[i].status.msg = "Skipped (in or under excluded directory '{}')"

\* C14: the directory-exclusion rule looks at directory components only.  A
\* file whose relative path the pattern matches is skipped by the rule
\* exactly when a directory above it has an excluded name; a file with no
\* such directory above it is not skipped by the rule, also when its own
\* name is an excluded name.  A directory is listed as skipped exactly when
\* its own name is an excluded name.
C14_DirectoryComponentsOnly ==
    /\ \A e \in VisitedFiles :
          ReSearch(args.file_regex_pattern, RelPathStr(e.path)) =>
              (SkippedByDirectoryRule(e) <=> ExcludedAncestor(e))
    /\ \A d \in fs.entries :
          d.kind = "dir" /\ d.path \in processed_paths =>
              (RelPathStr(d.path) \in Range(results.summary.directories_explicitly_skipped)
                  <=> PathName(d.path) \in exclude_dirs_set)

\* The sample sizes is_binary_file is asked with: none, one byte, the
\* default, and one byte more.
SampleSizes == {0, 1, SampleSize, SampleSize + 1}

\* A null byte is among the first n bytes of the content: a run of null
\* bytes begins before offset n.
NullAmongFirst(content, n) ==
    \E i \in DOMAIN content :
        /\ content[i].b = 0
        /\ content[i].n > 0
        /\ ByteLen(SubSeq(content, 1, i - 1)) < n

\* The files whose record is the skip of the final binary re-check.
SkippedAsBinaryText(e) ==
    \E i \in RecordsOf(RelPathStr(e.path)) :
        results.files[i].status.msg =
            "Skipped (binary content detected in recognized text file type)"

\* C15: is_binary_file(path, sample_size) is true exactly when the file
\* cannot be opened or a null byte is among its first sample_size bytes: a
\* null byte further on does not make it true, and a file that cannot be
\* opened gives true, not an exception.  So a file with an extension of the
\* default inclusion list that reaches the re-check of process_file is
\* skipped there exactly in those two cases, and never with the status of
\* an unexpected error for a file that cannot be opened.
C15_BinaryIffUnopenableOrNullInSample ==
    /\ \A e \in {x \in fs.entries : x.kind = "file"} :
          \A n \in SampleSizes :
              is_binary_file(e, n) <=> (~e.readable \/ NullAmongFirst(e.content, n))
    /\ \A e \in HandedFiles :
          /\ ExtOf(e) \in DEFAULT_INCLUDE_EXTENSIONS
          /\ ExtOf(e) \notin current_exclude_extensions_set
          => /\ SkippedAsBinaryText(e)
                    <=> (~e.readable \/ NullAmongFirst(e.content, SampleSize))
             /\ ~e.readable =>
                    \A i \in RecordsOf(RelPathStr(e.path)) :
                        results.files[i].status.msg \notin FailureMsgs

\* C15's case: a.py holds a whole sample of "a" and then a null byte; the
\* re-check sniffed it and found it no binary, and it was read and counted.
C15_Witness ==
    \E e \in HandedFiles :
        /\ PathName(e.path) = N_a_py
        /\ e.readable
        /\ HasNullByte(e.content)
        /\ ~NullAmongFirst(e.content, SampleSize)
        /\ ~SkippedAsBinaryText(e)
        /\ \E tr \in TraceOf(RelPathStr(e.path)) : tr.sniffs = 1 /\ tr.read

\* C16: a file that passes the path filters and the extension checks but
\* cannot be opened for reading is recorded with the read-failure Error
\* status and no token count, not with a Skipped status.
C16_UnopenableFileIsReadError ==
    \A e \in HandedFiles :
        /\ ~e.readable
        /\ ExtOf(e) \in DEFAULT_INCLUDE_EXTENSIONS
               \/ PathName(e.path) \in TEXT_FILENAMES_WITHOUT_EXTENSION
        /\ ExtOf(e) \notin current_exclude_extensions_set
        => \A i \in RecordsOf(RelPathStr(e.path)) :
              /\ results.files[i].tokens = NoTokens
              /\ results.files[i].status.msg = "Error reading file: {e_read}"

\* The number of records with a token count, and without one.
RecordsWithTokens ==
    Cardinality({i \in DOMAIN results.files : results.files[i].tokens /= NoTokens})

RecordsWithoutTokens ==
    Cardinality({i \in DOMAIN results.files : results.files[i].tokens = NoTokens})

\* C17: counter conservation.  After every iteration of the loop of
\* process_directory, and in the returned report, the success counter is
\* the number of records with a token count, the error counter plus the
\* skipped counter is the number of records without one, the three counters
\* sum to the number of records, and total_tokens is the sum of the token
\* counts of the records that have one.
C17_CounterConservation ==
    LET s == results.summary
    IN /\ s.total_files_processed_successfully = RecordsWithTokens
       /\ s.total_files_with_errors + s.total_files_skipped = RecordsWithoutTokens
       /\ s.total_files_processed_successfully + s.total_files_with_errors
              + s.total_files_skipped = Len(results.files)
       /\ s.total_tokens = SumTokens(results.files)

\* C17's case: the walk is under way and has counted a file as processed,
\* one as an error and one as skipped, with tokens in the total.
C17_Witness ==
    /\ pc = "walk"
    /\ results.summary.total_files_processed_successfully >= 1
    /\ results.summary.total_files_with_errors >= 1
    /\ results.summary.total_files_skipped >= 1
    /\ results.summary.total_tokens >= 1

\* The status messages of the record of e.
StatusMsgsOf(e) ==
    {results.files[i].status.msg : i \in RecordsOf(RelPathStr(e.path))}

\* The file has no extension and its name is not a known text file name:
\* the files that is_likely_text_file sniffs.
SniffedByClassifier(e) ==
    /\ Suffix(PathName(e.path)) = << >>
    /\ PathName(e.path) \notin TEXT_FILENAMES_WITHOUT_EXTENSION

\* C18: process_file opens a file to sniff it at three places, at most
\* three times in a call, and of a file that does not change during the
\* call the sniffs agree: a file that is_likely_text_file found binary is
\* found binary by the no-extension branch and gets "Skipped (binary file
\* without extension)", one it found no binary is found none by the final
\* re-check, and the status "Skipped (file type not recognized or not in
\* default inclusion list)" is never produced.
C18_SniffsAgreeOnUnchangedFile ==
    \A e \in HandedFiles :
        /\ \A tr \in TraceOf(RelPathStr(e.path)) : tr.sniffs <= 3
        /\ "Skipped (file type not recognized or not in default inclusion list)"
               \notin StatusMsgsOf(e)
        /\ SniffedByClassifier(e) =>
              /\ is_binary_file(e, SampleSize)
                    <=> StatusMsgsOf(e) = {"Skipped (binary file without extension)"}
              /\ "Skipped (binary content detected in recognized text file type)"
                    \notin StatusMsgsOf(e)

\* C18's case: the file "data", whose first bytes hold a null byte, was
\* sniffed by is_likely_text_file and again by the no-extension branch, and
\* skipped as a binary file without extension.
C18_Witness ==
    \E e \in HandedFiles :
        /\ PathName(e.path) = N_data
        /\ e.readable
        /\ HasNullByte(ReadBytes(e.content, SampleSize))
        /\ StatusMsgsOf(e) = {"Skipped (binary file without extension)"}
        /\ \E tr \in TraceOf(RelPathStr(e.path)) : tr.sniffs = 2

=============================================================================
